---- MODULE Spec2Model ----
(***************************************************************************)
(* The thoughts store of js-project-happy-thoughts                          *)
(* (src/src/stores/thoughtsStore.js) as a state machine.                    *)
(*                                                                         *)
(* JavaScript runs one handler at a time: the synchronous part of an       *)
(* action (up to its first await) is one step, and the continuation after  *)
(* each awaited request is another step.  Calls in flight are kept in      *)
(* `inflight` with the values their closures captured.                     *)
(*                                                                         *)
(* The helpers of ../utils/thoughtUtils and the HTTP API are not part of   *)
(* the sources at hand; they are modelled from the specification (sections *)
(* 3, 6 and 7) and from the way the store calls them.                      *)
(***************************************************************************)
EXTENDS Integers, Sequences, FiniteSets, TLC

VARIABLES
    thoughts,       \* store.thoughts: sequence of Thought
    loading,        \* store.loading
    error,          \* store.error
    currentPage,    \* store.currentPage
    totalPages,     \* store.totalPages
    totalThoughts,  \* store.totalThoughts
    hasMore,        \* store.hasMore
    viewMode,       \* store.viewMode
    thoughtFilter,  \* store.thoughtFilter
    inflight,       \* the calls suspended at an await, with their closures
    nStarted,       \* number of asynchronous calls started so far
    last,           \* what the most recent call handed back to its caller
    srvTop,         \* server: highest id assigned so far
    srvDeleted,     \* server: ids deleted
    srvEdited,      \* server: ids whose message was edited
    srvLiked        \* server: ids the viewer likes

storeVars == <<thoughts, loading, error, currentPage, totalPages,
               totalThoughts, hasMore, viewMode, thoughtFilter>>
srvVars == <<srvTop, srvDeleted, srvEdited, srvLiked>>
vars == <<thoughts, loading, error, currentPage, totalPages, totalThoughts,
          hasMore, viewMode, thoughtFilter, inflight, nStarted, last,
          srvTop, srvDeleted, srvEdited, srvLiked>>

---------------------------------------------------------------------------
(* Constants of the program and bounds of the model *)

PAGE_SIZE == 10

\* at most this many asynchronous calls are started in one behaviour
MaxCalls == 3
\* page numbers a caller passes to fetchThoughts / changePage
MaxPage == 2
\* records the server holds at the start: one full page and a bit
SeedCount == 11
\* likes each seeded record has from other viewers
BaseLikes == 3

Pages == 1..MaxPage
ViewModes == {"pagination", "infinite"}
Filters == {"all", "my", "mine"}
\* the ids the user acts on (like, edit, delete): the two newest seeded records
TargetIds == {SeedCount - 1, SeedCount}

PUBLIC_FEED == "GET /thoughts"
OWN_FEED == "GET /users/me/thoughts"
LOAD_ERROR == "Could not load happy thoughts. Please try again later."
AUTH_REQUIRED == "Authentication required"

Min(a, b) == IF a < b THEN a ELSE b
Max(a, b) == IF a > b THEN a ELSE b
CeilDiv(a, b) == (a + b - 1) \div b

---------------------------------------------------------------------------
(* The HTTP API (spec section 6) *)

\* temporary ids and timestamps of optimistic thoughts lie above every server id
TempBase == 100
Owner(i) == IF i \in {1, SeedCount} \/ i > SeedCount THEN "me" ELSE "other"

\* the record the server returns for id i
ServerRecord(i) ==
    [id |-> i,
     message |-> IF i \in srvEdited THEN "edited"
                 ELSE IF i > SeedCount THEN "new" ELSE "orig",
     likesCount |-> (IF i > SeedCount THEN 0 ELSE BaseLikes)
                    + (IF i \in srvLiked THEN 1 ELSE 0),
     liked |-> i \in srvLiked,
     createdAt |-> i,
     owner |-> Owner(i)]

\* the records an endpoint lists: the owner's for OWN_FEED, all for the others
ServerIds(endpoint) ==
    {i \in 1..srvTop :
        i \notin srvDeleted /\ (endpoint = OWN_FEED => Owner(i) = "me")}

\* the ids of S, highest (newest) first
DescSeq(S) ==
    SelectSeq([k \in 1..srvTop |-> srvTop + 1 - k], LAMBDA i : i \in S)

\* GET ...?page=p&limit=PAGE_SIZE: newest first
ServerPage(endpoint, p) ==
    LET all == DescSeq(ServerIds(endpoint))
        lo == (p - 1) * PAGE_SIZE + 1
        hi == Min(p * PAGE_SIZE, Len(all))
    IN [k \in 1..Max(0, hi - lo + 1) |-> ServerRecord(all[lo + k - 1])]

ServerTotal(endpoint) == Cardinality(ServerIds(endpoint))

---------------------------------------------------------------------------
(* ../utils/thoughtUtils (spec section 6, "Transform utilities") *)

NoThought ==
    [id |-> 0, message |-> "", likesCount |-> 0, liked |-> FALSE,
     createdAt |-> 0, owner |-> "", isOptimistic |-> FALSE]

processThought(raw) ==
    [id |-> raw.id, message |-> raw.message, likesCount |-> raw.likesCount,
     liked |-> raw.liked, createdAt |-> raw.createdAt, owner |-> raw.owner,
     isOptimistic |-> FALSE]

createOptimisticThought(message, now) ==
    [id |-> now, message |-> message, likesCount |-> 0, liked |-> FALSE,
     createdAt |-> now, owner |-> "me", isOptimistic |-> TRUE]

createOptimisticLikeUpdate(t) ==
    [t EXCEPT !.liked = ~t.liked,
              !.likesCount = IF t.liked THEN Max(0, t.likesCount - 1)
                             ELSE t.likesCount + 1]

\* createOptimisticUpdater(id, () => new)(list)
createOptimisticUpdater(id, new, list) ==
    [k \in 1..Len(list) |-> IF list[k].id = id THEN new ELSE list[k]]

\* createReplaceUpdater(id, new)(list)
createReplaceUpdater(id, new, list) ==
    [k \in 1..Len(list) |-> IF list[k].id = id THEN new ELSE list[k]]

\* createRemoveUpdater(id)(list)
createRemoveUpdater(id, list) == SelectSeq(list, LAMBDA t : t.id # id)

\* the thought goes back in front of the first entry older than it
reinsertThought(list, t) ==
    LET older == {k \in 1..Len(list) : list[k].createdAt < t.createdAt}
        at == IF older = {} THEN Len(list) + 1
              ELSE CHOOSE k \in older : \A j \in older : k <= j
    IN SubSeq(list, 1, at - 1) \o <<t>> \o SubSeq(list, at, Len(list))

extractErrorMessage(payloadMessage, fallback) ==
    IF payloadMessage # "" THEN payloadMessage ELSE fallback

handleApiError(errMessage, fallback, authFallback) ==
    IF errMessage = AUTH_REQUIRED THEN authFallback ELSE fallback

---------------------------------------------------------------------------
(* Calls *)

Find(list, id) ==
    IF \E k \in 1..Len(list) : list[k].id = id
    THEN list[CHOOSE k \in 1..Len(list) :
                 list[k].id = id /\ \A j \in 1..(k - 1) : list[j].id # id]
    ELSE NoThought

\* a wrong choice of endpoint: the public feed whatever the filter
FetchEndpointAlwaysPublic(filter) == PUBLIC_FEED

\* the endpoint of fetchThoughts under a filter
FetchEndpoint(filter) == IF filter = "my" THEN OWN_FEED ELSE PUBLIC_FEED

\* the request function of fetchThoughts under a filter
FetchFunction(filter) == IF filter = "my" THEN "authenticatedFetch" ELSE "fetch"

RequestEndpoint(kind, filter) ==
    CASE kind = "fetch" -> FetchEndpoint(filter)
      [] kind = "add" -> "POST /thoughts"
      [] kind = "like" -> "POST /thoughts/:id/like"
      [] kind = "update" -> "PUT /thoughts/:id"
      [] kind = "delete" -> "DELETE /thoughts/:id"

RequestFunction(kind, filter) ==
    IF kind = "fetch" THEN FetchFunction(filter) ELSE "authenticatedFetch"

\* a call suspended at its request: what its closure holds (page, append and
\* the filter's endpoint for a fetch; the target id, the snapshot taken and
\* the onError callback for the others) and the list as the call found it
\* `via` is the action that made the call, `endpoint` and `fetchFn` the
\* request it issued
Call(kind, page, append, filter, tid, snap, onErr) ==
    [cid |-> nStarted + 1, kind |-> kind, pc |-> "request",
     page |-> page, append |-> append, filter |-> filter,
     tid |-> tid, snap |-> snap, onError |-> onErr, before |-> thoughts,
     via |-> kind, endpoint |-> RequestEndpoint(kind, filter),
     fetchFn |-> RequestFunction(kind, filter)]

Returned(kind, outcome, ret, err, cb) ==
    [kind |-> kind, outcome |-> outcome, ret |-> ret, err |-> err, cb |-> cb]

Init ==
    /\ thoughts = <<>>
    /\ loading = FALSE
    /\ error = ""
    /\ currentPage = 1
    /\ totalPages = 1
    /\ totalThoughts = 0
    /\ hasMore = TRUE
    /\ viewMode = "pagination"
    /\ thoughtFilter = "all"
    /\ inflight = {}
    /\ nStarted = 0
    /\ last = Returned("none", "", "", "", "")
    /\ srvTop = SeedCount
    /\ srvDeleted = {}
    /\ srvEdited = {}
    /\ srvLiked = {}

---------------------------------------------------------------------------
(* fetchThoughts *)

Others(c) == inflight \ {c}

\* the body of a GET response: a bare array, or the records with pagination
\* metadata; an absent number is 0 and an absent flag is "undefined"
FetchResponse(endpoint, p, format) ==
    LET recs == ServerPage(endpoint, p)
        total == ServerTotal(endpoint)
        pages == CeilDiv(total, PAGE_SIZE)
    IN IF format = "okBare"
       THEN [thoughts |-> recs, total |-> 0, pgCurrentPage |-> 0,
             pgTotalPages |-> 0, pgHasNextPage |-> "undefined"]
       ELSE [thoughts |-> recs, total |-> total, pgCurrentPage |-> p,
             pgTotalPages |-> pages,
             pgHasNextPage |-> IF p < pages THEN "true" ELSE "false"]

\* a || b on numbers: 0 and undefined are falsy
OrNum(a, b) == IF a # 0 THEN a ELSE b

ProcessAll(recs) == [k \in 1..Len(recs) |-> processThought(recs[k])]

\* a fallback that takes any non-empty page as a sign of more
FetchHasMoreNonEmpty(pgHasNextPage, count) ==
    IF pgHasNextPage # "undefined" THEN pgHasNextPage = "true"
    ELSE count > 0

FetchHasMore(pgHasNextPage, count) ==
    IF pgHasNextPage # "undefined" THEN pgHasNextPage = "true"
    ELSE count = PAGE_SIZE

\* a merge that appends whatever the append flag says
FetchMergeAlwaysAppends(append, old, processedThoughts) ==
    old \o processedThoughts

FetchMerge(append, old, processedThoughts) ==
    IF append THEN old \o processedThoughts ELSE processedThoughts

\* set({ loading: true, error: '' }) and the request, up to the first await
\* of fetchThoughts, called by action `via` under the filter get() returns
BeginFetch(page, append, filter, via) ==
    /\ nStarted < MaxCalls
    /\ loading' = TRUE
    /\ error' = ""
    /\ inflight' = inflight \cup
           {[Call("fetch", page, append, filter, 0, NoThought, FALSE)
                EXCEPT !.via = via]}
    /\ nStarted' = nStarted + 1

\* fetchThoughts(page, append) called directly
FetchThoughts(page, append) ==
    /\ BeginFetch(page, append, thoughtFilter, "fetchThoughts")
    /\ UNCHANGED <<thoughts, currentPage, totalPages, totalThoughts, hasMore,
                   viewMode, thoughtFilter, last, srvVars>>

\* the response is OK and parses: lines 50-69, then finally
FetchSucceed(c, format) ==
    LET data == FetchResponse(c.endpoint, c.page, format)
        processedThoughts == ProcessAll(data.thoughts)
        total == OrNum(data.total, Len(data.thoughts))
    IN /\ thoughts' = FetchMerge(c.append, thoughts, processedThoughts)
       /\ currentPage' = OrNum(data.pgCurrentPage, c.page)
       /\ totalPages' = OrNum(data.pgTotalPages, CeilDiv(total, PAGE_SIZE))
       /\ totalThoughts' = total
       /\ hasMore' = FetchHasMore(data.pgHasNextPage, Len(processedThoughts))
       /\ loading' = FALSE
       /\ last' = Returned("fetch", format, "resolved", "", "")
       /\ UNCHANGED error

\* a catch branch that also empties the list
FetchFailClears(c, outcome) ==
    /\ error' = LOAD_ERROR
    /\ loading' = FALSE
    /\ last' = Returned("fetch", outcome, "resolved", "", "")
    /\ thoughts' = <<>>
    /\ UNCHANGED <<currentPage, totalPages, totalThoughts, hasMore>>

\* a catch branch after which `loading` is not cleared
FetchFailKeepsLoading(c, outcome) ==
    /\ error' = LOAD_ERROR
    /\ last' = Returned("fetch", outcome, "resolved", "", "")
    /\ UNCHANGED <<thoughts, currentPage, totalPages, totalThoughts, hasMore,
                   loading>>

\* the request throws, or the response is not OK: catch, then finally
FetchFail(c, outcome) ==
    /\ error' = LOAD_ERROR
    /\ loading' = FALSE
    /\ last' = Returned("fetch", outcome, "resolved", "", "")
    /\ UNCHANGED <<thoughts, currentPage, totalPages, totalThoughts, hasMore>>

FetchDone(c) ==
    /\ c.kind = "fetch"
    /\ \/ \E format \in {"okBare", "okWrapped"} : FetchSucceed(c, format)
       \/ \E outcome \in {"neterr", "notok"} : FetchFail(c, outcome)
       \/ c.fetchFn = "authenticatedFetch" /\ FetchFail(c, "autherr")
    /\ inflight' = Others(c)
    /\ UNCHANGED <<viewMode, thoughtFilter, nStarted, srvVars>>

\* changePage(page)
ChangePage(page) ==
    IF page # currentPage
    THEN /\ BeginFetch(page, FALSE, thoughtFilter, "changePage")
         /\ UNCHANGED <<thoughts, currentPage, totalPages, totalThoughts,
                        hasMore, viewMode, thoughtFilter, last, srvVars>>
    ELSE /\ last' = Returned("changePage", "noop", "", "", "")
         /\ UNCHANGED <<storeVars, inflight, nStarted, srvVars>>

\* a loadMore that does not look at `loading`
LoadMoreIgnoresLoading ==
    IF hasMore
    THEN /\ BeginFetch(currentPage + 1, TRUE, thoughtFilter, "loadMore")
         /\ UNCHANGED <<thoughts, currentPage, totalPages, totalThoughts,
                        hasMore, viewMode, thoughtFilter, last, srvVars>>
    ELSE /\ last' = Returned("loadMore", "noop", "", "", "")
         /\ UNCHANGED <<storeVars, inflight, nStarted, srvVars>>

\* loadMore()
LoadMore ==
    IF ~loading /\ hasMore
    THEN /\ BeginFetch(currentPage + 1, TRUE, thoughtFilter, "loadMore")
         /\ UNCHANGED <<thoughts, currentPage, totalPages, totalThoughts,
                        hasMore, viewMode, thoughtFilter, last, srvVars>>
    ELSE /\ last' = Returned("loadMore", "noop", "", "", "")
         /\ UNCHANGED <<storeVars, inflight, nStarted, srvVars>>

\* a setViewMode that resets and reloads the list for every mode
SetViewModeAlwaysResets(mode) ==
    /\ viewMode' = mode
    /\ currentPage' = 1
    /\ thoughts' = <<>>
    /\ BeginFetch(1, FALSE, thoughtFilter, "setViewMode")
    /\ UNCHANGED <<totalPages, totalThoughts, hasMore, thoughtFilter, last,
                   srvVars>>

\* setViewMode(mode)
SetViewMode(mode) ==
    /\ viewMode' = mode
    /\ IF mode = "infinite"
       THEN /\ currentPage' = 1
            /\ thoughts' = <<>>
            /\ BeginFetch(1, FALSE, thoughtFilter, "setViewMode")
            /\ UNCHANGED <<totalPages, totalThoughts, hasMore, thoughtFilter,
                           last, srvVars>>
       ELSE /\ last' = Returned("setViewMode", "noop", "", "", "")
            /\ UNCHANGED <<thoughts, loading, error, currentPage, totalPages,
                           totalThoughts, hasMore, thoughtFilter, inflight,
                           nStarted, srvVars>>

\* setThoughtFilter(filter)
SetThoughtFilter(filter) ==
    /\ thoughtFilter' = filter
    /\ currentPage' = 1
    /\ thoughts' = <<>>
    /\ BeginFetch(1, FALSE, filter, "setThoughtFilter")
    /\ UNCHANGED <<totalPages, totalThoughts, hasMore, viewMode, last, srvVars>>

---------------------------------------------------------------------------
(* addThought *)

POST_ERROR == "Could not post your thought. Please try again."
POST_AUTH_ERROR == "Please log in to post a thought"
\* the message of an error payload; "" when the payload carries none
PayloadMessages == {"", "Server says no"}

AddOptimistic(optimisticThought, list) == <<optimisticThought>> \o list

\* a confirmation that adds the server record and leaves the placeholder
AddConfirmPrepends(c, processedThought, list) == <<processedThought>> \o list

AddConfirm(c, processedThought, list) ==
    createReplaceUpdater(c.tid, processedThought, list)

\* a rollback that forgets the optimistic entry
AddRollbackKeeps(c, list) == list

AddRollback(c, list) == createRemoveUpdater(c.tid, list)

\* addThought(message, onError) up to the request
AddThought(onErr) ==
    LET optimisticThought ==
            createOptimisticThought("new", TempBase + nStarted + 1)
    IN /\ nStarted < MaxCalls
       /\ error' = ""
       /\ loading' = TRUE
       /\ thoughts' = AddOptimistic(optimisticThought, thoughts)
       /\ inflight' = inflight \cup
              {Call("add", 0, FALSE, "", optimisticThought.id,
                    optimisticThought, onErr)}
       /\ nStarted' = nStarted + 1
       /\ UNCHANGED <<currentPage, totalPages, totalThoughts, hasMore,
                      viewMode, thoughtFilter, last, srvVars>>

\* response.ok && data.message && data._id
AddSucceed(c) ==
    /\ srvTop' = srvTop + 1
    /\ thoughts' = AddConfirm(c, processThought(ServerRecord(srvTop + 1)),
                              thoughts)
    /\ last' = Returned("add", "ok", "resolved", "", "")
    /\ UNCHANGED <<error, srvDeleted, srvEdited, srvLiked>>

\* the else branch: a non-OK response, or an OK one without message or _id
AddReject(c, outcome, payloadMessage) ==
    /\ thoughts' = AddRollback(c, thoughts)
    /\ last' = Returned("add", outcome, "resolved", "",
                        IF c.onError
                        THEN extractErrorMessage(payloadMessage, "Invalid input")
                        ELSE "")
    /\ UNCHANGED <<error, srvVars>>

\* a catch branch that reports every failure in `error`
AddCatchAlwaysShared(c, outcome, errMessage) ==
    /\ thoughts' = AddRollback(c, thoughts)
    /\ error' = handleApiError(errMessage, POST_ERROR, POST_AUTH_ERROR)
    /\ last' = Returned("add", outcome, "resolved", "", "")
    /\ UNCHANGED srvVars

\* the catch branch: the request or response.json() throws errMessage
AddCatch(c, outcome, errMessage) ==
    LET errorMessage == handleApiError(errMessage, POST_ERROR, POST_AUTH_ERROR)
        toCallback == errMessage = AUTH_REQUIRED /\ c.onError
    IN /\ thoughts' = AddRollback(c, thoughts)
       /\ error' = IF toCallback THEN error ELSE errorMessage
       /\ last' = Returned("add", outcome, "resolved", "",
                           IF toCallback THEN errorMessage ELSE "")
       /\ UNCHANGED srvVars

AddDone(c) ==
    /\ c.kind = "add"
    /\ \/ AddSucceed(c)
       \/ \E outcome \in {"notok", "malformed"}, m \in PayloadMessages :
              AddReject(c, outcome, m)
       \/ AddCatch(c, "neterr", "Failed to fetch")
       \/ AddCatch(c, "badjson", "Unexpected token")
       \/ AddCatch(c, "autherr", AUTH_REQUIRED)
    /\ loading' = FALSE
    /\ inflight' = Others(c)
    /\ UNCHANGED <<currentPage, totalPages, totalThoughts, hasMore, viewMode,
                   thoughtFilter, nStarted>>

---------------------------------------------------------------------------
(* handleLike *)

LIKE_ERROR == "Could not like the thought. Please try again."
LIKE_AUTH_ERROR == "Please log in to like thoughts."

Toggle(S, i) == IF i \in S THEN S \ {i} ELSE S \cup {i}

\* a rollback that puts back the toggled entry instead of the snapshot
LikeRollbackToggled(c, list) ==
    createOptimisticUpdater(c.tid, createOptimisticLikeUpdate(c.snap), list)

LikeRollback(c, list) == createOptimisticUpdater(c.tid, c.snap, list)

\* handleLike(thoughtId) up to the request
HandleLike(thoughtId) ==
    LET currentThought == Find(thoughts, thoughtId)
    IN IF currentThought = NoThought
       THEN /\ last' = Returned("like", "notfound", "resolved", "", "")
            /\ UNCHANGED <<storeVars, inflight, nStarted, srvVars>>
       ELSE /\ nStarted < MaxCalls
            /\ thoughts' = createOptimisticUpdater(thoughtId,
                               createOptimisticLikeUpdate(currentThought),
                               thoughts)
            /\ inflight' = inflight \cup
                   {Call("like", 0, FALSE, "", thoughtId, currentThought, FALSE)}
            /\ nStarted' = nStarted + 1
            /\ UNCHANGED <<loading, error, currentPage, totalPages,
                           totalThoughts, hasMore, viewMode, thoughtFilter,
                           last, srvVars>>

LikeSucceed(c) ==
    /\ c.tid \in ServerIds(PUBLIC_FEED)
    /\ srvLiked' = Toggle(srvLiked, c.tid)
    /\ UNCHANGED <<srvTop, srvDeleted, srvEdited>>
    /\ thoughts' = createReplaceUpdater(c.tid,
                       processThought(ServerRecord(c.tid)'), thoughts)
    /\ last' = Returned("like", "ok", "resolved", "", "")
    /\ UNCHANGED error

\* the catch branch: the request throws errMessage, or the response is not OK
LikeCatch(c, outcome, errMessage) ==
    /\ thoughts' = LikeRollback(c, thoughts)
    /\ error' = handleApiError(errMessage, LIKE_ERROR, LIKE_AUTH_ERROR)
    /\ last' = Returned("like", outcome, "rejected", errMessage, "")
    /\ UNCHANGED srvVars

LikeDone(c) ==
    /\ c.kind = "like"
    /\ \/ LikeSucceed(c)
       \/ LikeCatch(c, "neterr", "Failed to fetch")
       \/ LikeCatch(c, "notok", "Failed to update like status")
       \/ LikeCatch(c, "autherr", AUTH_REQUIRED)
    /\ inflight' = Others(c)
    /\ UNCHANGED <<loading, currentPage, totalPages, totalThoughts, hasMore,
                   viewMode, thoughtFilter, nStarted>>

---------------------------------------------------------------------------
(* updateThought *)

NOT_FOUND == "Thought not found"
UPDATE_ERROR == "Could not update the thought. Please try again."
UPDATE_AUTH_ERROR == "Please log in to edit thoughts."

UpdateRollback(c, list) == createOptimisticUpdater(c.tid, c.snap, list)

\* updateThought(thoughtId, message) up to the request
UpdateThought(thoughtId) ==
    LET currentThought == Find(thoughts, thoughtId)
        optimisticUpdate ==
            [currentThought EXCEPT !.message = "edited", !.isOptimistic = TRUE]
    IN IF currentThought = NoThought
       THEN /\ last' = Returned("update", "notfound", "failure", NOT_FOUND, "")
            /\ UNCHANGED <<storeVars, inflight, nStarted, srvVars>>
       ELSE /\ nStarted < MaxCalls
            /\ thoughts' = createOptimisticUpdater(thoughtId, optimisticUpdate,
                                                   thoughts)
            /\ inflight' = inflight \cup
                   {Call("update", 0, FALSE, "", thoughtId, currentThought, FALSE)}
            /\ nStarted' = nStarted + 1
            /\ UNCHANGED <<loading, error, currentPage, totalPages,
                           totalThoughts, hasMore, viewMode, thoughtFilter,
                           last, srvVars>>

UpdateSucceed(c) ==
    /\ c.tid \in ServerIds(PUBLIC_FEED)
    /\ srvEdited' = srvEdited \cup {c.tid}
    /\ UNCHANGED <<srvTop, srvDeleted, srvLiked>>
    /\ thoughts' = createReplaceUpdater(c.tid,
                       processThought(ServerRecord(c.tid)'), thoughts)
    /\ last' = Returned("update", "ok", "success", "", "")
    /\ inflight' = Others(c)
    /\ UNCHANGED error

\* the response is not OK: the entry is reverted, then the body is awaited
UpdateReject(c) ==
    /\ thoughts' = UpdateRollback(c, thoughts)
    /\ inflight' = Others(c) \cup {[c EXCEPT !.pc = "json"]}
    /\ UNCHANGED <<error, last, srvVars>>

\* a catch branch that also publishes the message in `error`, as
\* handleLike's does
UpdateCatchSetsError(c, outcome, errMessage) ==
    /\ thoughts' = UpdateRollback(c, thoughts)
    /\ error' = handleApiError(errMessage, UPDATE_ERROR, UPDATE_AUTH_ERROR)
    /\ last' = Returned("update", outcome, "failure", error', "")
    /\ inflight' = Others(c)
    /\ UNCHANGED srvVars

\* the catch branch: the request, or reading a body, throws errMessage
UpdateCatch(c, outcome, errMessage) ==
    /\ thoughts' = UpdateRollback(c, thoughts)
    /\ last' = Returned("update", outcome, "failure",
                        handleApiError(errMessage, UPDATE_ERROR,
                                       UPDATE_AUTH_ERROR), "")
    /\ inflight' = Others(c)
    /\ UNCHANGED <<error, srvVars>>

UpdateDone(c) ==
    /\ c.kind = "update"
    /\ c.pc = "request"
    /\ \/ UpdateSucceed(c)
       \/ UpdateReject(c)
       \/ UpdateCatch(c, "neterr", "Failed to fetch")
       \/ UpdateCatch(c, "autherr", AUTH_REQUIRED)
    /\ UNCHANGED <<loading, currentPage, totalPages, totalThoughts,
                   hasMore, viewMode, thoughtFilter, nStarted>>

\* the error body of a rejected update arrives
UpdateJson(c) ==
    /\ c.kind = "update"
    /\ c.pc = "json"
    /\ \/ \E m \in PayloadMessages :
              /\ last' = Returned("update", "notok", "failure",
                             extractErrorMessage(m, "Failed to update thought"),
                             "")
              /\ inflight' = Others(c)
              /\ UNCHANGED <<thoughts, error, srvVars>>
       \/ UpdateCatch(c, "badjson", "Unexpected token")
    /\ UNCHANGED <<loading, currentPage, totalPages, totalThoughts,
                   hasMore, viewMode, thoughtFilter, nStarted>>

---------------------------------------------------------------------------
(* deleteThought *)

DELETE_ERROR == "Could not delete the thought. Please try again."
DELETE_AUTH_ERROR == "Please log in to delete thoughts."

\* a rollback that puts the entry back at the end of the list
DeleteRollbackAtEnd(c, list) == list \o <<c.snap>>

DeleteRollback(c, list) == reinsertThought(list, c.snap)

\* a deleteThought that sends its request without looking for the entry
DeleteThoughtNoGuard(thoughtId) ==
    /\ nStarted < MaxCalls
    /\ thoughts' = createRemoveUpdater(thoughtId, thoughts)
    /\ inflight' = inflight \cup
           {Call("delete", 0, FALSE, "", thoughtId, Find(thoughts, thoughtId),
                 FALSE)}
    /\ nStarted' = nStarted + 1
    /\ UNCHANGED <<loading, error, currentPage, totalPages, totalThoughts,
                   hasMore, viewMode, thoughtFilter, last, srvVars>>

\* deleteThought(thoughtId) up to the request
DeleteThought(thoughtId) ==
    LET thoughtToDelete == Find(thoughts, thoughtId)
    IN IF thoughtToDelete = NoThought
       THEN /\ last' = Returned("delete", "notfound", "failure", NOT_FOUND, "")
            /\ UNCHANGED <<storeVars, inflight, nStarted, srvVars>>
       ELSE /\ nStarted < MaxCalls
            /\ thoughts' = createRemoveUpdater(thoughtId, thoughts)
            /\ inflight' = inflight \cup
                   {Call("delete", 0, FALSE, "", thoughtId, thoughtToDelete,
                         FALSE)}
            /\ nStarted' = nStarted + 1
            /\ UNCHANGED <<loading, error, currentPage, totalPages,
                           totalThoughts, hasMore, viewMode, thoughtFilter,
                           last, srvVars>>

DeleteSucceed(c) ==
    /\ c.tid \in ServerIds(PUBLIC_FEED)
    /\ srvDeleted' = srvDeleted \cup {c.tid}
    /\ UNCHANGED <<srvTop, srvEdited, srvLiked>>
    /\ last' = Returned("delete", "ok", "success", "", "")
    /\ inflight' = Others(c)
    /\ UNCHANGED thoughts

\* the response is not OK: the entry is put back, then the body is awaited
DeleteReject(c) ==
    /\ thoughts' = DeleteRollback(c, thoughts)
    /\ inflight' = Others(c) \cup {[c EXCEPT !.pc = "json"]}
    /\ UNCHANGED <<last, srvVars>>

\* the catch branch: the request, or reading a body, throws errMessage
DeleteCatch(c, outcome, errMessage) ==
    /\ thoughts' = DeleteRollback(c, thoughts)
    /\ last' = Returned("delete", outcome, "failure",
                        handleApiError(errMessage, DELETE_ERROR,
                                       DELETE_AUTH_ERROR), "")
    /\ inflight' = Others(c)
    /\ UNCHANGED srvVars

DeleteDone(c) ==
    /\ c.kind = "delete"
    /\ c.pc = "request"
    /\ \/ DeleteSucceed(c)
       \/ DeleteReject(c)
       \/ DeleteCatch(c, "neterr", "Failed to fetch")
       \/ DeleteCatch(c, "autherr", AUTH_REQUIRED)
    /\ UNCHANGED <<loading, error, currentPage, totalPages, totalThoughts,
                   hasMore, viewMode, thoughtFilter, nStarted>>

\* the error body of a rejected delete arrives
DeleteJson(c) ==
    /\ c.kind = "delete"
    /\ c.pc = "json"
    /\ \/ \E m \in PayloadMessages :
              /\ last' = Returned("delete", "notok", "failure",
                             extractErrorMessage(m, "Failed to delete thought"),
                             "")
              /\ inflight' = Others(c)
              /\ UNCHANGED <<thoughts, srvVars>>
       \/ DeleteCatch(c, "badjson", "Unexpected token")
    /\ UNCHANGED <<loading, error, currentPage, totalPages, totalThoughts,
                   hasMore, viewMode, thoughtFilter, nStarted>>

---------------------------------------------------------------------------
(* The store: any action may be called and any response may arrive *)

Next ==
    \/ \E page \in Pages, append \in BOOLEAN : FetchThoughts(page, append)
    \/ \E page \in Pages : ChangePage(page)
    \/ LoadMore
    \/ \E mode \in ViewModes : SetViewMode(mode)
    \/ \E filter \in Filters : SetThoughtFilter(filter)
    \/ \E onErr \in BOOLEAN : AddThought(onErr)
    \/ \E id \in TargetIds : HandleLike(id)
    \/ \E id \in TargetIds : UpdateThought(id)
    \/ \E id \in TargetIds : DeleteThought(id)
    \/ \E c \in inflight : FetchDone(c)
    \/ \E c \in inflight : AddDone(c)
    \/ \E c \in inflight : LikeDone(c)
    \/ \E c \in inflight : UpdateDone(c)
    \/ \E c \in inflight : UpdateJson(c)
    \/ \E c \in inflight : DeleteDone(c)
    \/ \E c \in inflight : DeleteJson(c)

Spec == Init /\ [][Next]_vars

---------------------------------------------------------------------------
(* Properties *)

Has(list, id) == \E k \in 1..Len(list) : list[k].id = id
IndexOf(list, id) ==
    CHOOSE k \in 1..Len(list) :
        list[k].id = id /\ \A j \in 1..(k - 1) : list[j].id # id
NewestFirst(list) ==
    \A k \in 1..(Len(list) - 1) : list[k].createdAt > list[k + 1].createdAt

\* call c is suspended now and has returned to its caller after this step
Completes(c) == c \in inflight /\ \A d \in inflight' : d.cid # c.cid
\* call c moves on to await its error body in this step
AwaitsBody(c) == c.pc = "request" /\ [c EXCEPT !.pc = "json"] \in inflight'
Failed(kind) == last.kind = kind /\ last.outcome \notin {"ok", "okBare", "okWrapped"}

\* C1: no two entries of `thoughts` have the same id.
C1_UniqueIds ==
    \A i, j \in 1..Len(thoughts) : thoughts[i].id = thoughts[j].id => i = j

\* C2: when no addThought and no updateThought call awaits its response, no
\* entry of `thoughts` is optimistic.
C2_NoOptimisticLeftOver ==
    (\A c \in inflight : c.kind \notin {"add", "update"})
        => \A k \in 1..Len(thoughts) : ~thoughts[k].isOptimistic

\* C3: an addThought call that fails, with the store as the call left it when
\* its response arrives, leaves `thoughts` as it was before the call.
C3_FailedAddRestores ==
    [][\A c \in inflight :
          (/\ c.kind = "add"
           /\ Completes(c)
           /\ Failed("add")'
           /\ thoughts = AddOptimistic(c.snap, c.before))
          => thoughts' = c.before]_vars

C3_Witness ==
    /\ last.kind = "add"
    /\ last.outcome = "notok"
    /\ inflight = {}
    /\ Len(thoughts) = PAGE_SIZE
    /\ C1_UniqueIds

\* C4: a failed handleLike leaves every entry with that id with the like count
\* and the liked flag it had before the call, sets `error` and rejects.
C4_FailedLikeRestores ==
    [][\A c \in inflight :
          (c.kind = "like" /\ Completes(c) /\ Failed("like")')
          => /\ \A k \in 1..Len(thoughts') :
                    thoughts'[k].id = c.tid
                    => /\ thoughts'[k].likesCount = c.snap.likesCount
                       /\ thoughts'[k].liked = c.snap.liked
             /\ Has(thoughts, c.tid) => Has(thoughts', c.tid)
             /\ Len(thoughts') = Len(thoughts)
             /\ error' # ""
             /\ last'.ret = "rejected"]_vars

C4_Witness ==
    /\ last.kind = "like"
    /\ last.outcome = "notok"
    /\ last.ret = "rejected"
    /\ error = LIKE_ERROR
    /\ Has(thoughts, SeedCount)
    /\ Find(thoughts, SeedCount).likesCount = BaseLikes
    /\ ~Find(thoughts, SeedCount).liked

\* a step of a deleteThought call that handles a failure: the response is not
\* OK, the request throws, or the error body arrives or fails to parse
DeleteFailureStep(c) ==
    /\ c.kind = "delete"
    /\ \/ c.pc = "request" /\ AwaitsBody(c)
       \/ c.pc = "request" /\ Completes(c) /\ Failed("delete")'
       \/ c.pc = "json" /\ Completes(c)

\* the list is as call c itself left it
DeleteUndisturbed(c) ==
    thoughts = IF c.pc = "request" THEN createRemoveUpdater(c.tid, c.before)
               ELSE c.before

ReinsertedAtOriginalIndex(c) ==
    /\ IndexOf(c.before, c.tid) <= Len(thoughts')
    /\ thoughts'[IndexOf(c.before, c.tid)] = c.snap

Started == {c \in inflight' : \A d \in inflight : d.cid # c.cid}
Count(list, id) == Cardinality({k \in 1..Len(list) : list[k].id = id})

AddInsertsPlaceholder ==
    \A c \in Started :
        c.kind = "add"
        => /\ c.snap.isOptimistic
           /\ thoughts' = <<c.snap>> \o thoughts
           /\ Len(thoughts') = Len(thoughts) + 1
           /\ Count(thoughts', c.tid) = 1

AddConfirmed(c) == c.kind = "add" /\ Completes(c) /\ last'.outcome = "ok"

FetchSucceeded(c) ==
    c.kind = "fetch" /\ Completes(c) /\ last'.outcome \in {"okBare", "okWrapped"}
FetchFailed(c) ==
    c.kind = "fetch" /\ Completes(c) /\ Failed("fetch")'
ReturnedPage(c) == ProcessAll(ServerPage(c.endpoint, c.page))

\* C7: a successful fetch with append = false leaves exactly the returned
\* page; with append = true, the list at completion followed by the page.
C7_FetchReplacesOrAppends ==
    [][\A c \in inflight :
          FetchSucceeded(c)
          => thoughts' = IF c.append THEN thoughts \o ReturnedPage(c)
                         ELSE ReturnedPage(c)]_vars

C7_Witness ==
    /\ last.kind = "fetch"
    /\ last.outcome = "okWrapped"
    /\ Len(thoughts) = SeedCount
    /\ thoughts[1].id = SeedCount
    /\ thoughts[SeedCount].id = 1
    /\ currentPage = 2

\* C8: after a successful fetch without pagination metadata, hasMore is false
\* for a page of fewer than PAGE_SIZE items and true for one of PAGE_SIZE.
C8_HasMoreFallback ==
    [][\A c \in inflight :
          (FetchSucceeded(c) /\ last'.outcome = "okBare")
          => /\ Len(ReturnedPage(c)) < PAGE_SIZE => ~hasMore'
             /\ Len(ReturnedPage(c)) = PAGE_SIZE => hasMore']_vars

C8_Witness ==
    /\ last.kind = "fetch"
    /\ last.outcome = "okBare"
    /\ ~hasMore
    /\ Len(thoughts) = 1
    /\ thoughts[1].id = 1
    /\ thoughtFilter = "all"

\* C9: a failed fetch sets `error` to the load-failure message and leaves
\* thoughts, currentPage, totalPages, totalThoughts and hasMore as they are.
C9_FailedFetchKeepsList ==
    [][\A c \in inflight :
          FetchFailed(c)
          => /\ error' = LOAD_ERROR
             /\ UNCHANGED <<thoughts, currentPage, totalPages, totalThoughts,
                            hasMore>>]_vars

C9_Witness ==
    /\ last.kind = "fetch"
    /\ last.outcome = "notok"
    /\ error = LOAD_ERROR
    /\ Len(thoughts) = PAGE_SIZE
    /\ totalThoughts = SeedCount

NoFetchOrAddInFlight == \A c \in inflight : c.kind \notin {"fetch", "add"}

\* C10: every fetchThoughts and addThought call leaves `loading` false as it
\* completes, and `loading` is false whenever none of them is in flight.
C10_LoadingCleared ==
    /\ NoFetchOrAddInFlight => ~loading
    /\ [][/\ \A c \in inflight :
                (c.kind \in {"fetch", "add"} /\ Completes(c)) => ~loading'
          /\ NoFetchOrAddInFlight' => ~loading']_vars

C10_Witness ==
    /\ last.kind = "add"
    /\ last.outcome = "badjson"
    /\ ~loading
    /\ inflight = {}
    /\ Len(thoughts) = PAGE_SIZE

FetchInFlight == \E c \in inflight : c.kind = "fetch"

\* C11: `loading` is true whenever at least one fetchThoughts call is in
\* flight, whatever other fetchThoughts and addThought calls overlap it.
C11_LoadingWhileFetching == FetchInFlight => loading

StartedBy(via) == {c \in Started : c.via = via}

\* C12 as stated: setThoughtFilter("mine") sets currentPage to 1, empties
\* `thoughts`, stores the filter, and the fetch it starts goes to the
\* owner-scoped endpoint through the authenticated request function.
C12_MineUsesOwnFeed ==
    [][\A c \in StartedBy("setThoughtFilter") :
          c.filter = "mine"
          => /\ currentPage' = 1
             /\ thoughts' = <<>>
             /\ thoughtFilter' = "mine"
             /\ c.endpoint = OWN_FEED
             /\ c.fetchFn = "authenticatedFetch"]_vars

\* C12: setThoughtFilter(f) sets currentPage to 1, empties `thoughts`, stores
\* f and starts fetchThoughts(1); that fetch goes to the owner-scoped
\* endpoint through the authenticated request function when f is 'my', and
\* to the public endpoint through the plain one for every other f.
C12_MyUsesOwnFeed ==
    [][\A c \in StartedBy("setThoughtFilter") :
          /\ currentPage' = 1
          /\ thoughts' = <<>>
          /\ thoughtFilter' = c.filter
          /\ c.page = 1 /\ ~c.append
          /\ Cardinality(Started) = 1
          /\ IF c.filter = "my"
             THEN c.endpoint = OWN_FEED /\ c.fetchFn = "authenticatedFetch"
             ELSE c.endpoint = PUBLIC_FEED /\ c.fetchFn = "fetch"]_vars

C12_Witness ==
    \E c \in inflight :
        /\ c.via = "setThoughtFilter"
        /\ c.filter = "my"
        /\ c.endpoint = OWN_FEED
        /\ Len(c.before) = PAGE_SIZE
        /\ thoughts = <<>>
        /\ currentPage = 1
        /\ thoughtFilter = "my"

\* a step of an updateThought or deleteThought call: its start, its early
\* return, the arrival of its response or of its error body
UpdateOrDeleteStep ==
    \/ \E c \in Started : c.kind \in {"update", "delete"}
    \/ \E c \in inflight :
          c.kind \in {"update", "delete"} /\ (Completes(c) \/ AwaitsBody(c))
    \/ last' # last /\ last'.kind \in {"update", "delete"}

\* C13: no step of updateThought or deleteThought changes `error`, on the
\* success path, the failure paths and the not-found return alike; failures
\* are reported in the value the call returns.
C13_UpdateDeleteKeepError ==
    [][UpdateOrDeleteStep
       => /\ error' = error
          /\ (last' # last /\ last'.outcome # "ok")
             => (last'.ret = "failure" /\ last'.err # "")]_vars

C13_Witness ==
    /\ last.kind = "update"
    /\ last.outcome = "autherr"
    /\ last.err = UPDATE_AUTH_ERROR
    /\ error = ""
    /\ inflight = {}

\* an action returns at once because its target is not in `thoughts`
NotFoundReturn == last' # last /\ last'.outcome = "notfound"

\* C14: handleLike, updateThought and deleteThought send a request only for
\* an id that is in `thoughts`; called with an absent id, updateThought and
\* deleteThought return { success: false, error: 'Thought not found' },
\* handleLike returns nothing, and the store is left as it was.
C14_AbsentTargetNoEffect ==
    [][/\ \A c \in Started :
             c.kind \in {"like", "update", "delete"}
             => (Has(thoughts, c.tid) /\ c.snap = Find(thoughts, c.tid))
       /\ NotFoundReturn
          => /\ UNCHANGED <<storeVars, inflight, nStarted>>
             /\ last'.kind \in {"like", "update", "delete"}
             /\ last'.kind \in {"update", "delete"}
                => (last'.ret = "failure" /\ last'.err = NOT_FOUND)
             /\ last'.kind = "like"
                => (last'.ret = "resolved" /\ last'.err = "")]_vars

C14_Witness ==
    /\ last.kind = "delete"
    /\ last.outcome = "notfound"
    /\ last.ret = "failure"
    /\ last.err = NOT_FOUND
    /\ Len(thoughts) = PAGE_SIZE - 1
    /\ ~Has(thoughts, SeedCount - 1)
    /\ inflight = {}

\* C15: loadMore() starts a call only when `loading` is false and `hasMore`
\* is true, and then exactly one, fetchThoughts(currentPage + 1, true); when
\* it returns without a call, `loading` is true or `hasMore` is false and the
\* store is left as it was.
C15_LoadMoreGuarded ==
    [][/\ \A c \in StartedBy("loadMore") :
             /\ ~loading /\ hasMore
             /\ c.kind = "fetch"
             /\ c.page = currentPage + 1 /\ c.append
             /\ c.filter = thoughtFilter
             /\ Started = {c}
             /\ UNCHANGED <<thoughts, currentPage, totalPages, totalThoughts,
                            hasMore, viewMode, thoughtFilter>>
       /\ (last' # last /\ last'.kind = "loadMore")
          => /\ loading \/ ~hasMore
             /\ UNCHANGED <<storeVars, inflight, nStarted>>]_vars

C15_Witness ==
    /\ \E c \in inflight :
          /\ c.via = "loadMore"
          /\ c.page = 2 /\ c.append
          /\ currentPage = 1
          /\ Len(c.before) = PAGE_SIZE
    /\ last.kind = "loadMore"
    /\ last.outcome = "noop"
    /\ loading
    /\ Cardinality(inflight) = 1

\* setViewMode('pagination') is called: it returns without a call
PaginationModeStep ==
    \/ last' # last /\ last'.kind = "setViewMode"
    \/ viewMode' # viewMode /\ viewMode' = "pagination"

\* C16: setViewMode(mode) always stores mode in `viewMode`; with 'infinite'
\* it also sets currentPage to 1, empties `thoughts` and starts
\* fetchThoughts(1) in replace mode; with 'pagination' it changes nothing
\* else and starts no call.
C16_SetViewMode ==
    [][/\ \A c \in StartedBy("setViewMode") :
             /\ viewMode' = "infinite"
             /\ currentPage' = 1
             /\ thoughts' = <<>>
             /\ c.kind = "fetch"
             /\ c.page = 1 /\ ~c.append
             /\ c.filter = thoughtFilter
             /\ Started = {c}
             /\ UNCHANGED <<totalPages, totalThoughts, hasMore, thoughtFilter>>
       /\ PaginationModeStep
          => /\ viewMode' = "pagination"
             /\ UNCHANGED <<thoughts, loading, error, currentPage, totalPages,
                            totalThoughts, hasMore, thoughtFilter, inflight,
                            nStarted>>
       /\ viewMode' # viewMode
          => (StartedBy("setViewMode") # {} \/ PaginationModeStep)]_vars

C16_Witness ==
    /\ \E c \in inflight :
          /\ c.via = "setViewMode"
          /\ c.page = 1 /\ ~c.append
          /\ Len(c.before) = PAGE_SIZE
    /\ viewMode = "infinite"
    /\ thoughts = <<>>
    /\ currentPage = 1
    /\ last.kind = "setViewMode"

AddFails(c) == c.kind = "add" /\ Completes(c) /\ Failed("add")'
Rejections == {"notok", "malformed"}
RejectionMessages == {extractErrorMessage(m, "Invalid input") : m \in PayloadMessages}

\* C17 as stated: a failing addThought delivers its message through exactly
\* one of the onError callback and the shared `error` field; after a server
\* rejection with onError given the callback has it and `error` is empty;
\* after a transport failure the callback has it only for an authentication
\* failure with onError given, and `error` has it otherwise.
C17_ExactlyOneChannel ==
    [][\A c \in inflight :
          AddFails(c)
          => LET toCallback == last'.cb # ""
                 toShared == error' \in {POST_ERROR, POST_AUTH_ERROR}
             IN /\ toCallback # toShared
                /\ (last'.outcome \in Rejections /\ c.onError)
                   => (toCallback /\ error' = "")
                /\ last'.outcome \notin Rejections
                   => (toCallback <=> (last'.outcome = "autherr" /\ c.onError))
       ]_vars

\* C17: a failing addThought delivers its message through at most one
\* channel. After a server rejection the onError callback gets the message
\* when one is given, nothing is reported when none is given, and `error` is
\* left as it is. After a transport failure the callback gets the message
\* and `error` is left as it is when the failure is an authentication failure
\* and onError is given; otherwise `error` is set to the message and the
\* callback is not called.
C17_AtMostOneChannel ==
    [][\A c \in inflight :
          AddFails(c)
          => IF last'.outcome \in Rejections
             THEN /\ error' = error
                  /\ IF c.onError
                     THEN last'.cb \in RejectionMessages
                     ELSE last'.cb = ""
             ELSE IF last'.outcome = "autherr" /\ c.onError
                  THEN last'.cb = POST_AUTH_ERROR /\ error' = error
                  ELSE /\ last'.cb = ""
                       /\ error' = IF last'.outcome = "autherr"
                                   THEN POST_AUTH_ERROR
                                   ELSE POST_ERROR]_vars

C17_Witness ==
    /\ last.kind = "add"
    /\ last.outcome = "autherr"
    /\ last.cb = POST_AUTH_ERROR
    /\ error = ""
    /\ inflight = {}
    /\ Len(thoughts) = PAGE_SIZE

---------------------------------------------------------------------------
(* Failing mutations only: one page is loaded, then handleLike,
   updateThought, deleteThought and addThought calls are made and every one
   of their requests fails *)

FirstPageLoaded == nStarted > 0 /\ ~FetchInFlight
\* the step is not the successful completion of call c
NotSuccess(c) == ~(Completes(c) /\ last'.outcome = "ok")

NextRollback ==
    \/ nStarted = 0 /\ FetchThoughts(1, FALSE)
    \/ \E c \in inflight : FetchDone(c) /\ ~Failed("fetch")'
    \/ FirstPageLoaded /\ \E onErr \in BOOLEAN : AddThought(onErr)
    \/ FirstPageLoaded /\ \E thoughtId \in TargetIds : HandleLike(thoughtId)
    \/ FirstPageLoaded /\ \E thoughtId \in TargetIds : UpdateThought(thoughtId)
    \/ FirstPageLoaded /\ \E thoughtId \in TargetIds : DeleteThought(thoughtId)
    \/ \E c \in inflight : AddDone(c) /\ NotSuccess(c)
    \/ \E c \in inflight : LikeDone(c) /\ NotSuccess(c)
    \/ \E c \in inflight : UpdateDone(c) /\ NotSuccess(c)
    \/ \E c \in inflight : UpdateJson(c)
    \/ \E c \in inflight : DeleteDone(c) /\ NotSuccess(c)
    \/ \E c \in inflight : DeleteJson(c)

SpecRollback == Init /\ [][NextRollback]_vars

\* the first page as the server lists it: `thoughts` once it is loaded
FirstPage == ProcessAll(ServerPage(PUBLIC_FEED, 1))

Entries(list) == {list[k] : k \in 1..Len(list)}

\* C18: when handleLike, updateThought, deleteThought and addThought calls
\* overlap (two on the same id included) and every request fails, then once
\* all of them have completed, in whatever order, `thoughts` holds the
\* entries it held before the first of them started, each as it was.
C18_RollbackExact ==
    (FirstPageLoaded /\ inflight = {}) => Entries(thoughts) = Entries(FirstPage)

---------------------------------------------------------------------------
(* Successful fetches only: the actions that load the feed, with every
   request answered successfully *)

NextFeed ==
    \/ \E page \in Pages, append \in BOOLEAN : FetchThoughts(page, append)
    \/ \E page \in Pages : ChangePage(page)
    \/ LoadMore
    \/ \E mode \in ViewModes : SetViewMode(mode)
    \/ \E filter \in Filters : SetThoughtFilter(filter)
    \/ \E c \in inflight : FetchDone(c) /\ ~Failed("fetch")'

SpecFeed == Init /\ [][NextFeed]_vars

\* C19: once every request has completed successfully, in any order,
\* `thoughts` holds only records that the endpoint of the selected filter
\* lists, also when setThoughtFilter was called while an earlier
\* fetchThoughts was still in flight.
C19_FeedShowsSelectedScope ==
    inflight = {}
    => \A k \in 1..Len(thoughts) :
           thoughts[k].id \in ServerIds(FetchEndpoint(thoughtFilter))

LoadMoreInFlight == {c \in inflight : c.via = "loadMore"}

\* C20: at most one fetch started by loadMore is in flight at any time,
\* whatever other actions start or complete in between.
C20_OneLoadMoreInFlight == Cardinality(LoadMoreInFlight) <= 1

====
